---- MODULE Spec2Model ----
(***************************************************************************)
(* Model of the BusTub storage core: the clock replacer, the buffer pool   *)
(* manager and the linear-probe hash table.                                *)
(*                                                                         *)
(* The buffer pool is driven by one client thread that issues the public   *)
(* calls with arbitrary arguments.  ClockReplacer::Victim is a loop; each  *)
(* iteration of it is one step of the model (pc = "victim"), every other   *)
(* call is one atomic step (the pool latch is held for the whole call).    *)
(***************************************************************************)
EXTENDS Integers, Sequences, FiniteSets, TLC

\* ---------------------------------------------------------------- bounds
PoolSize == 2
MaxPageId == 3
MaxPin == 2
MaxData == 1
MaxFreeList == 3
MaxCalls == 7
MaxIters == 6
MaxKey == 3
MaxValue == 1
MaxInitSize == 3
MaxSize == 12
MaxHtCalls == 5
MaxThCalls == 3
BLOCK_ARRAY_SIZE == 2

\* ------------------------------------------------------------- constants
INVALID_PAGE_ID == -1
HEADER_PAGE_ID == 0
NullFrame == -1

Frames == 0 .. (PoolSize - 1)
PageIds == 0 .. (MaxPageId - 1)
Data == 0 .. MaxData
\* The page ids a caller can name: the pages that exist on the disk.
Known(next) == 0 .. (next - 1)

VARIABLES pages_, page_table_, free_list_, clock_, hand_, disk, next_page_id,
          pc, call, last, mod, marked, ncalls, iters

\* Page::rwlatch_ of every frame between calls: "none" when nobody holds it,
\* "W" when it is held in write mode.
VARIABLE rwlatch_

\* The hash table: capacity, number of block latches, the block pages in
\* header order, and the bookkeeping of the running call.
VARIABLES size_, block_latches_, blocks, ht_pc, ht_call, ht_last, ht_live, ht_ncalls

\* The threads that call the hash table concurrently: for each its position
\* in the running call, the call's arguments and locals, and its last result.
VARIABLE th

\* Page::pin_count_ of the table's pages, as far as the table's own calls to
\* the pool set it.
VARIABLE ht_pins

htvars == <<size_, block_latches_, blocks, ht_pc, ht_call, ht_last, ht_live, ht_ncalls, th, ht_pins>>

bpvars == <<pages_, page_table_, free_list_, clock_, hand_, disk, next_page_id>>
poolvars == <<pages_, page_table_, free_list_, clock_, hand_, disk, next_page_id,
              pc, call, last, mod, marked, ncalls, iters, rwlatch_>>
vars == <<pages_, page_table_, free_list_, clock_, hand_, disk, next_page_id,
          pc, call, last, mod, marked, ncalls, iters, rwlatch_,
          size_, block_latches_, blocks, ht_pc, ht_call, ht_last, ht_live, ht_ncalls, th, ht_pins>>

\* ------------------------------------------------------------- helpers
Put(m, k, v) == [x \in (DOMAIN m) \cup {k} |-> IF x = k THEN v ELSE m[x]]
Erase(m, k) == [x \in (DOMAIN m) \ {k} |-> m[x]]
RemoveAt(s, i) == [j \in 1 .. (Len(s) - 1) |-> IF j < i THEN s[j] ELSE s[j + 1]]
InsertAt(s, i, e) ==
  [j \in 1 .. (Len(s) + 1) |-> IF j < i THEN s[j] ELSE IF j = i THEN e ELSE s[j - 1]]

\* ------------------------------------------------------- disk manager
\* DiskManager::ReadPage: the payload stored at page_id.
ReadPage(d, page_id) == IF page_id \in DOMAIN d THEN d[page_id] ELSE 0
\* DiskManager::WritePage: store the payload at page_id.
WritePage(d, page_id, data) ==
  IF page_id \in DOMAIN d THEN [d EXCEPT ![page_id] = data] ELSE d

\* ----------------------------------------------------- ClockReplacer
\* A replacer state is a record [clock, hand]: clock is the std::list<Slot>,
\* hand is the position of the iterator hand_ (Len(clock) + 1 is end()).
Slot(frame_id, ref) == [frame_id |-> frame_id, ref |-> ref]

\* ClockReplacer::ClockReplacer
NewReplacer == [clock |-> <<>>, hand |-> 1]

\* ClockReplacer::RemoveFrame(iter)
RemoveFrame(R, iter) ==
  IF iter = R.hand
  THEN LET c == RemoveAt(R.clock, iter)
       IN  [clock |-> c, hand |-> IF iter = Len(c) + 1 THEN 1 ELSE iter]
  ELSE [clock |-> RemoveAt(R.clock, iter),
        hand |-> IF iter < R.hand THEN R.hand - 1 ELSE R.hand]

\* ClockReplacer::Pin: erase the first slot that holds frame_id.
Pin(R, frame_id) ==
  LET hits == {i \in 1 .. Len(R.clock) : R.clock[i].frame_id = frame_id}
  IN  IF hits = {} THEN R
      ELSE RemoveFrame(R, CHOOSE i \in hits : \A j \in hits : i <= j)

\* ClockReplacer::Unpin: insert before hand_, hand_ points at the new slot.
Unpin(R, frame_id) ==
  [clock |-> InsertAt(R.clock, R.hand, Slot(frame_id, TRUE)), hand |-> R.hand]

\* ClockReplacer::Size
Size(R) == Len(R.clock)

\* The value of the condition `hand_->ref = false` in Victim: an assignment,
\* whose value is the assigned false.
RefTest(slot) == FALSE

\* ------------------------------------------------ BufferPoolManager
\* A pool state S is a record of the members of BufferPoolManager plus the
\* disk; an operation returns the new state together with its return value
\* (ret) and, when it entered the Victim loop, pc = "victim".
Page(page_id, pin_count, is_dirty, data) ==
  [page_id |-> page_id, pin_count |-> pin_count, is_dirty |-> is_dirty, data |-> data]

Cur == [pages |-> pages_, page_table |-> page_table_, free_list |-> free_list_,
        repl |-> [clock |-> clock_, hand |-> hand_], disk |-> disk,
        next_page_id |-> next_page_id]

Done(S, ret) == [st |-> S, ret |-> ret, pc |-> "idle"]
EnterVictim(S) == [st |-> S, ret |-> NullFrame, pc |-> "victim"]

\* DiskManager::AllocatePage
AllocatePage(S) == S.next_page_id

\* FetchPageImpl / NewPageImpl: the code after a successful Victim call.
EvictAndBind(S, vic_frame, page_id, is_new) ==
  LET vic == S.pages[vic_frame]
      d1 == IF vic.is_dirty THEN WritePage(S.disk, vic.page_id, vic.data) ELSE S.disk
      pt == Put(Erase(S.page_table, vic.page_id), page_id, vic_frame)
      payload == IF is_new THEN 0 ELSE ReadPage(d1, page_id)
  IN  [S EXCEPT !.disk = d1,
                !.page_table = pt,
                !.pages[vic_frame] = Page(page_id, 1, FALSE, payload),
                !.repl = IF is_new THEN S.repl ELSE Pin(S.repl, vic_frame),
                !.next_page_id = IF is_new THEN S.next_page_id + 1 ELSE S.next_page_id]

\* BufferPoolManager::FetchPageImpl
FetchPageImpl(S, page_id) ==
  IF page_id \in DOMAIN S.page_table
  THEN LET frame_id == S.page_table[page_id]
       IN  Done([S EXCEPT !.pages[frame_id].pin_count = @ + 1,
                          !.repl = Pin(S.repl, frame_id)], frame_id)
  ELSE IF Len(S.free_list) > 0
  THEN LET frame_id == Head(S.free_list)
       IN  Done([S EXCEPT !.free_list = Tail(S.free_list),
                          !.page_table = Put(S.page_table, page_id, frame_id),
                          !.pages[frame_id] = Page(page_id, 1, FALSE, ReadPage(S.disk, page_id)),
                          !.repl = Pin(S.repl, frame_id)], frame_id)
  ELSE IF Size(S.repl) = 0
  THEN Done(S, NullFrame)
  ELSE EnterVictim(S)

\* BufferPoolManager::UnpinPageImpl
UnpinPageImpl(S, page_id, is_dirty) ==
  LET pt == IF page_id \in DOMAIN S.page_table
            THEN S.page_table ELSE Put(S.page_table, page_id, 0)
      frame_id == pt[page_id]
      S1 == [S EXCEPT !.page_table = pt, !.pages[frame_id].is_dirty = is_dirty]
  IN  IF S1.pages[frame_id].pin_count <= 0
      THEN Done(S1, FALSE)
      ELSE LET S2 == [S1 EXCEPT !.pages[frame_id].pin_count = @ - 1]
           IN  IF S2.pages[frame_id].pin_count = 0
               THEN Done([S2 EXCEPT !.repl = Unpin(S2.repl, frame_id)], TRUE)
               ELSE Done(S2, TRUE)

\* BufferPoolManager::FlushPageImpl
FlushPageImpl(S, page_id) ==
  IF page_id \notin DOMAIN S.page_table
  THEN Done(S, FALSE)
  ELSE LET frame_id == S.page_table[page_id]
       IN  IF S.pages[frame_id].page_id = INVALID_PAGE_ID
           THEN Done(S, FALSE)
           ELSE Done([S EXCEPT !.disk = WritePage(S.disk, page_id, S.pages[frame_id].data)], TRUE)

\* BufferPoolManager::NewPageImpl
NewPageImpl(S) ==
  IF Len(S.free_list) > 0
  THEN LET frame_id == Head(S.free_list)
           page_id == AllocatePage(S)
       IN  Done([S EXCEPT !.free_list = Tail(S.free_list),
                          !.next_page_id = @ + 1,
                          !.page_table = Put(S.page_table, page_id, frame_id),
                          !.pages[frame_id] = Page(page_id, 1, FALSE, 0)], frame_id)
  ELSE IF Size(S.repl) = 0
  THEN Done(S, NullFrame)
  ELSE EnterVictim(S)

\* BufferPoolManager::DeletePageImpl
DeletePageImpl(S, page_id) ==
  IF page_id \notin DOMAIN S.page_table
  THEN Done(S, TRUE)
  ELSE LET frame_id == S.page_table[page_id]
       IN  IF S.pages[frame_id].pin_count > 0
           THEN Done(S, FALSE)
           ELSE Done([S EXCEPT !.page_table = Erase(S.page_table, page_id),
                               !.free_list = Append(S.free_list, frame_id),
                               !.pages[frame_id] = Page(INVALID_PAGE_ID, 0, FALSE, 0)], TRUE)

\* BufferPoolManager::FlushAllPagesImpl: FlushPageImpl for every id of the
\* snapshot of the page table.
RECURSIVE FlushEach(_, _)
FlushEach(S, ids) ==
  IF ids = {} THEN S
  ELSE LET page_id == CHOOSE x \in ids : \A y \in ids : x <= y
       IN  FlushEach(FlushPageImpl(S, page_id).st, ids \ {page_id})

FlushAllPagesImpl(S) == Done(FlushEach(S, DOMAIN S.page_table), TRUE)

\* One iteration of the while (1) loop of ClockReplacer::Victim, followed,
\* when the loop returns true, by the rest of the calling operation.
VictimIter(S, c) ==
  LET R == S.repl
  IN  IF R.hand = Len(R.clock) + 1
      THEN EnterVictim([S EXCEPT !.repl.hand = 1])
      ELSE LET R1 == [R EXCEPT !.clock[R.hand].ref = FALSE]
           IN  IF RefTest(R.clock[R.hand])
               THEN LET frame_id == R1.clock[R1.hand].frame_id
                        S1 == [S EXCEPT !.repl = RemoveFrame(R1, R1.hand)]
                    IN  Done(EvictAndBind(S1, frame_id, c.page_id, c.op = "New"), frame_id)
               ELSE EnterVictim([S EXCEPT !.repl = [R1 EXCEPT !.hand = @ + 1]])

\* --------------------------------------------------------------- state
Op(op, page_id, is_dirty, val) ==
  [op |-> op, page_id |-> page_id, is_dirty |-> is_dirty, val |-> val]

\* BufferPoolManager::BufferPoolManager
PoolInit ==
  /\ pages_ = [f \in Frames |-> Page(INVALID_PAGE_ID, 0, FALSE, 0)]
  /\ page_table_ = <<>>
  /\ free_list_ = [i \in 1 .. PoolSize |-> i - 1]
  /\ clock_ = NewReplacer.clock
  /\ hand_ = NewReplacer.hand
  /\ disk = [p \in PageIds |-> 0]
  /\ next_page_id = HEADER_PAGE_ID + 1
  /\ pc = "idle"
  /\ call = Op("None", INVALID_PAGE_ID, FALSE, FALSE)
  /\ last = Op("None", INVALID_PAGE_ID, FALSE, FALSE)
  /\ mod = [p \in PageIds |-> 0]
  /\ marked = {}
  /\ ncalls = 0
  /\ iters = 0
  /\ rwlatch_ = [f \in Frames |-> "none"]

Threads == 1 .. 2

\* A thread outside any call.
IdleThread ==
  [pc |-> "idle", op |-> "None", key |-> 0, value |-> 0,
   block_idx |-> 0, offset |-> 0, seen |-> {}, ret |-> FALSE]

\* No hash table has been constructed.
NoTable ==
  /\ th = [t \in Threads |-> IdleThread]
  /\ size_ = 0
  /\ block_latches_ = 0
  /\ blocks = <<>>
  /\ ht_pc = "idle"
  /\ ht_call = <<>>
  /\ ht_last = <<>>
  /\ ht_live = {}
  /\ ht_ncalls = 0
  /\ ht_pins = <<>>

Init == PoolInit /\ NoTable

\* Install the result r of the operation described by c.
Commit(r, c) ==
  /\ pages_' = r.st.pages
  /\ page_table_' = r.st.page_table
  /\ free_list_' = r.st.free_list
  /\ clock_' = r.st.repl.clock
  /\ hand_' = r.st.repl.hand
  /\ disk' = r.st.disk
  /\ next_page_id' = r.st.next_page_id
  /\ pc' = r.pc
  /\ call' = IF r.pc = "victim" THEN c ELSE Op("None", INVALID_PAGE_ID, FALSE, FALSE)
  /\ last' = [c EXCEPT !.val = r.ret]

\* The first frame whose rwlatch_ each operation acquires, NullFrame if it
\* acquires none before it returns or enters Victim.
FetchLatches(page_id) ==
  IF page_id \in DOMAIN page_table_ THEN page_table_[page_id]
  ELSE IF Len(free_list_) > 0 THEN Head(free_list_) ELSE NullFrame

NewLatches == IF Len(free_list_) > 0 THEN Head(free_list_) ELSE NullFrame

UnpinLatches(page_id) == IF page_id \in DOMAIN page_table_ THEN page_table_[page_id] ELSE 0

FlushLatches(page_id) ==
  IF page_id \in DOMAIN page_table_ /\ pages_[page_table_[page_id]].page_id # INVALID_PAGE_ID
  THEN page_table_[page_id] ELSE NullFrame

DeleteLatches(page_id) == IF page_id \in DOMAIN page_table_ THEN page_table_[page_id] ELSE NullFrame

\* RLatch or WLatch on a rwlatch_ that is held in write mode does not return.
Held(f) == f \in Frames /\ rwlatch_[f] = "W"

\* The call c waits for a frame latch for ever, inside latch_.
Block(c) ==
  /\ pc' = "blocked"
  /\ call' = c
  /\ last' = [c EXCEPT !.op = "Blocked"]
  /\ UNCHANGED <<pages_, page_table_, free_list_, clock_, hand_, disk, next_page_id,
                 mod, marked, rwlatch_>>

FetchPage ==
  /\ UNCHANGED htvars
  /\ pc = "idle"
  /\ ncalls < MaxCalls
  /\ ncalls' = ncalls + 1
  /\ iters' = 0
  /\ \E page_id \in Known(next_page_id) :
       /\ page_id \in DOMAIN page_table_ => pages_[page_table_[page_id]].pin_count < MaxPin
       /\ IF Held(FetchLatches(page_id))
          THEN Block(Op("Fetch", page_id, FALSE, FALSE))
          ELSE /\ Commit(FetchPageImpl(Cur, page_id), Op("Fetch", page_id, FALSE, FALSE))
               /\ UNCHANGED <<mod, marked, rwlatch_>>

NewPage ==
  /\ UNCHANGED htvars
  /\ pc = "idle"
  /\ ncalls < MaxCalls
  /\ ncalls' = ncalls + 1
  /\ iters' = 0
  /\ next_page_id < MaxPageId
  /\ IF Held(NewLatches)
     THEN Block(Op("New", next_page_id, FALSE, FALSE))
     ELSE /\ Commit(NewPageImpl(Cur), Op("New", next_page_id, FALSE, FALSE))
          /\ UNCHANGED <<mod, marked, rwlatch_>>

UnpinPage ==
  /\ UNCHANGED htvars
  /\ pc = "idle"
  /\ ncalls < MaxCalls
  /\ ncalls' = ncalls + 1
  /\ iters' = 0
  /\ \E page_id \in Known(next_page_id), is_dirty \in BOOLEAN :
       IF Held(UnpinLatches(page_id))
       THEN Block(Op("Unpin", page_id, is_dirty, FALSE))
       ELSE /\ Commit(UnpinPageImpl(Cur, page_id, is_dirty), Op("Unpin", page_id, is_dirty, FALSE))
            /\ marked' = IF /\ is_dirty
                            /\ page_id \in DOMAIN page_table_
                            /\ pages_[page_table_[page_id]].page_id = page_id
                            /\ pages_[page_table_[page_id]].pin_count > 0
                            /\ mod[page_id] # 0
                         THEN marked \cup {page_id} ELSE marked
            /\ UNCHANGED <<mod, rwlatch_>>

FlushPage ==
  /\ UNCHANGED htvars
  /\ pc = "idle"
  /\ ncalls < MaxCalls
  /\ ncalls' = ncalls + 1
  /\ iters' = 0
  /\ \E page_id \in Known(next_page_id) :
       IF Held(FlushLatches(page_id))
       THEN Block(Op("Flush", page_id, FALSE, FALSE))
       ELSE /\ Commit(FlushPageImpl(Cur, page_id), Op("Flush", page_id, FALSE, FALSE))
            /\ UNCHANGED <<mod, marked, rwlatch_>>

\* DeletePageImpl.  When it deletes, it takes the frame's latch with WLatch and
\* gives it back with RUnlatch: what a read release does to a latch held in
\* write mode is not defined, the latch may be free afterwards or stay held.
DeletePage ==
  /\ UNCHANGED htvars
  /\ pc = "idle"
  /\ ncalls < MaxCalls
  /\ ncalls' = ncalls + 1
  /\ iters' = 0
  /\ Len(free_list_) < MaxFreeList
  /\ \E page_id \in Known(next_page_id) :
       IF Held(DeleteLatches(page_id))
       THEN Block(Op("Delete", page_id, FALSE, FALSE))
       ELSE /\ Commit(DeletePageImpl(Cur, page_id), Op("Delete", page_id, FALSE, FALSE))
            /\ IF page_id \in DOMAIN page_table_ /\ pages_[page_table_[page_id]].page_id = page_id
                  /\ pages_[page_table_[page_id]].pin_count = 0
               THEN mod' = [mod EXCEPT ![page_id] = 0] /\ marked' = marked \ {page_id}
               ELSE UNCHANGED <<mod, marked>>
            /\ IF page_id \in DOMAIN page_table_ /\ pages_[page_table_[page_id]].pin_count <= 0
               THEN \E after \in {"none", "W"} :
                      rwlatch_' = [rwlatch_ EXCEPT ![page_table_[page_id]] = after]
               ELSE UNCHANGED rwlatch_

\* FlushAllPagesImpl calls FlushPageImpl for every page id of the page table,
\* in the order of the unordered_map.
FlushAllPages ==
  /\ UNCHANGED htvars
  /\ pc = "idle"
  /\ ncalls < MaxCalls
  /\ ncalls' = ncalls + 1
  /\ iters' = 0
  /\ IF \E page_id \in DOMAIN page_table_ : Held(FlushLatches(page_id))
     THEN \* the pages flushed before the held frame is met: any of the others
          \E done \in SUBSET {page_id \in DOMAIN page_table_ : ~Held(FlushLatches(page_id))} :
            /\ disk' = FlushEach(Cur, done).disk
            /\ pc' = "blocked"
            /\ call' = Op("FlushAll", INVALID_PAGE_ID, FALSE, FALSE)
            /\ last' = Op("Blocked", INVALID_PAGE_ID, FALSE, FALSE)
            /\ UNCHANGED <<pages_, page_table_, free_list_, clock_, hand_, next_page_id,
                           mod, marked, rwlatch_>>
     ELSE /\ Commit(FlushAllPagesImpl(Cur), Op("FlushAll", INVALID_PAGE_ID, FALSE, FALSE))
          /\ UNCHANGED <<mod, marked, rwlatch_>>

\* The holder of a pin writes the payload of its page (Page::GetData).
ModifyPayload ==
  /\ UNCHANGED htvars
  /\ pc = "idle"
  /\ ncalls < MaxCalls
  /\ ncalls' = ncalls + 1
  /\ iters' = 0
  /\ \E f \in Frames, d \in Data \ {0} :
       /\ pages_[f].page_id \in PageIds
       /\ pages_[f].page_id \in DOMAIN page_table_
       /\ page_table_[pages_[f].page_id] = f
       /\ pages_[f].pin_count > 0
       /\ pages_[f].data # d
       /\ pages_' = [pages_ EXCEPT ![f].data = d]
       /\ mod' = [mod EXCEPT ![pages_[f].page_id] = d]
       /\ marked' = marked \ {pages_[f].page_id}
       /\ last' = Op("Modify", pages_[f].page_id, FALSE, f)
  /\ UNCHANGED <<page_table_, free_list_, clock_, hand_, disk, next_page_id, pc, call, rwlatch_>>

VictimStep ==
  /\ UNCHANGED htvars
  /\ pc = "victim"
  /\ ncalls' = ncalls
  /\ iters' = IF iters < MaxIters THEN iters + 1 ELSE iters
  /\ LET r == VictimIter(Cur, call)
     IN  Commit(r, call)
  /\ UNCHANGED <<mod, marked, rwlatch_>>

Next ==
  \/ FetchPage
  \/ NewPage
  \/ UnpinPage
  \/ FlushPage
  \/ DeletePage
  \/ FlushAllPages
  \/ ModifyPayload
  \/ VictimStep

Spec == Init /\ [][Next]_vars

\* The thread that is inside Victim keeps running.
FairSpec == Spec /\ WF_vars(VictimStep)

TypeOK ==
  /\ pc \in {"idle", "victim", "blocked"}
  /\ \A f \in Frames : pages_[f].pin_count >= 0
  /\ hand_ \in 1 .. (Len(clock_) + 1)

\* ------------------------------------------------- buffer pool claims
InReplacer(f) == \E i \in 1 .. Len(clock_) : clock_[i].frame_id = f
Resident(f) == pages_[f].page_id # INVALID_PAGE_ID /\ pages_[f].page_id \in DOMAIN page_table_
ResidentPage(p) == p \in DOMAIN page_table_ /\ pages_[page_table_[p]].page_id = p
FreeSet == {free_list_[i] : i \in 1 .. Len(free_list_)}
TableImage == {page_table_[p] : p \in DOMAIN page_table_}
AllPinned == \A f \in Frames : pages_[f].page_id # INVALID_PAGE_ID /\ pages_[f].pin_count > 0
IsCall == ncalls' # ncalls

\* C1: between calls, a frame is a replacer candidate iff it holds a page
\* that is in the page table and its pin count is 0.
C1_ReplacerMembership ==
  pc = "idle" =>
    \A f \in Frames : InReplacer(f) <=> (Resident(f) /\ pages_[f].pin_count = 0)

\* C2: a Victim call on a non-empty replacer returns within one revolution
\* that clears the ref bits plus one further pass over the clock.
C2_VictimTerminates ==
  pc = "victim" => iters <= 2 * (Len(clock_) + 1)

\* C3: a successful UnpinPage(p, d) on a resident page leaves the dirty flag
\* equal to (old flag OR d).
C3_StickyDirty ==
  [][(IsCall /\ last'.op = "Unpin" /\ last'.val = TRUE /\ ResidentPage(last'.page_id))
       => LET f == page_table_[last'.page_id]
          IN  pages_'[f].is_dirty = (pages_[f].is_dirty \/ last'.is_dirty)]_vars

\* C4: between calls the page table and the frames' page ids agree in both
\* directions and no two entries share a frame.
C4_Bijection ==
  pc = "idle" =>
    /\ \A p \in DOMAIN page_table_ : pages_[page_table_[p]].page_id = p
    /\ \A p, q \in DOMAIN page_table_ : p # q => page_table_[p] # page_table_[q]
    /\ \A f \in Frames : pages_[f].page_id # INVALID_PAGE_ID =>
         (pages_[f].page_id \in DOMAIN page_table_ /\ page_table_[pages_[f].page_id] = f)

\* C5: between calls the free list has no duplicates, is disjoint from the
\* image of the page table, and together they cover all frames.
C5_Partition ==
  pc = "idle" =>
    /\ \A i, j \in 1 .. Len(free_list_) : i # j => free_list_[i] # free_list_[j]
    /\ FreeSet \cap TableImage = {}
    /\ FreeSet \cup TableImage = Frames

\* C6: no step of FetchPage or NewPage changes the page id, the payload or
\* the page-table entries of a frame whose pin count is positive.
C6_PinnedNeverEvicted ==
  [][\A f \in Frames :
       (pages_[f].pin_count > 0 /\ last'.op \in {"Fetch", "New"})
         => /\ pages_'[f].page_id = pages_[f].page_id
            /\ pages_'[f].data = pages_[f].data
            /\ \A p \in DOMAIN page_table_ : page_table_[p] = f =>
                 (p \in DOMAIN page_table_' /\ page_table_'[p] = f)]_vars

\* C7: when every frame holds a pinned page, NewPage and FetchPage of a
\* non-resident page return null and change nothing.
C7_AllPinnedRejected ==
  [][(IsCall /\ AllPinned /\
        (last'.op = "New" \/ (last'.op = "Fetch" /\ last'.page_id \notin DOMAIN page_table_)))
       => (pc' = "idle" /\ last'.val = NullFrame /\ UNCHANGED bpvars)]_vars

\* C8: UnpinPage on a resident page whose pin count is 0 returns false and
\* changes nothing.
C8_FailedUnpinNoChange ==
  [][(IsCall /\ last'.op = "Unpin" /\ ResidentPage(last'.page_id)
        /\ pages_[page_table_[last'.page_id]].pin_count = 0)
       => (last'.val = FALSE /\ UNCHANGED bpvars)]_vars

\* What FetchPage(p) would hand back: the resident payload, else the disk's.
Retrievable(p) ==
  IF ResidentPage(p) THEN pages_[page_table_[p]].data ELSE ReadPage(disk, p)

\* C9: once a modified page was unpinned dirty, a call that has to evict
\* completes, and the page's modification is still what a fetch returns.
C9_DirtySurvivesEviction ==
  \A p \in PageIds :
    (p \in marked /\ pc = "victim") ~> (pc = "idle" /\ Retrievable(p) = mod[p])

\* ======================================================= hash table
\* The table's pages are fetched through a buffer pool that is large enough
\* to keep the header page and every block page resident, so a block page is
\* identified with its index in the header's block_page_ids_ and its payload
\* is blocks[index + 1].
Offsets == 0 .. (BLOCK_ARRAY_SIZE - 1)
Keys == 0 .. MaxKey
Values == 0 .. MaxValue

\* HashFunction::GetHash
GetHash(key) == key

\* A block page after Page::ResetMemory.  occupied_ and readable_ are indexed
\* by the slot number (occupied_[bucket_ind] == 1), one flag per slot.
ZeroBlock ==
  [occupied |-> [o \in Offsets |-> FALSE],
   readable |-> [o \in Offsets |-> FALSE],
   array |-> [o \in Offsets |-> <<0, 0>>]]

\* HashTableBlockPage::BoundCheck
BoundCheck(bucket_ind) == bucket_ind < BLOCK_ARRAY_SIZE

\* HashTableBlockPage::IsOccupied.  The probe loops call it with
\* bucket_ind = BLOCK_ARRAY_SIZE as well, always conjoined with
\* `offset < BLOCK_ARRAY_SIZE`, so the value read there never matters.
IsOccupied(block, bucket_ind) == bucket_ind \in Offsets /\ block.occupied[bucket_ind]

\* HashTableBlockPage::IsReadable
IsReadable(block, bucket_ind) == bucket_ind \in Offsets /\ block.readable[bucket_ind]

\* HashTableBlockPage::KeyAt
KeyAt(block, bucket_ind) == IF BoundCheck(bucket_ind) THEN block.array[bucket_ind][1] ELSE 0

\* HashTableBlockPage::ValueAt
ValueAt(block, bucket_ind) == IF BoundCheck(bucket_ind) THEN block.array[bucket_ind][2] ELSE 0

\* HashTableBlockPage::Insert
BlockInsert(block, bucket_ind, key, value) ==
  IF ~BoundCheck(bucket_ind) THEN block
  ELSE IF IsOccupied(block, bucket_ind) THEN block
  ELSE [block EXCEPT !.array[bucket_ind] = <<key, value>>,
                     !.occupied[bucket_ind] = TRUE,
                     !.readable[bucket_ind] = TRUE]

\* Remove that clears the occupied bit together with the readable bit.
BlockRemoveClearsOccupied(block, bucket_ind) ==
  IF ~BoundCheck(bucket_ind) THEN block
  ELSE [block EXCEPT !.readable[bucket_ind] = FALSE, !.occupied[bucket_ind] = FALSE]

\* HashTableBlockPage::Remove
BlockRemove(block, bucket_ind) ==
  IF ~BoundCheck(bucket_ind) THEN block
  ELSE [block EXCEPT !.readable[bucket_ind] = FALSE]

\* A table state T is a record [size, latches, blocks].
Table == [size |-> size_, latches |-> block_latches_, blocks |-> blocks]

\* HashTableHeaderPage::NumBlocks
NumBlocks(T) == Len(T.blocks)

\* LinearProbeHashTable::GetSlot
GetSlot(T, key) ==
  LET idx == GetHash(key) % T.size
  IN  [block_idx |-> idx \div BLOCK_ARRAY_SIZE, offset |-> idx % BLOCK_ARRAY_SIZE]

\* LinearProbeHashTable::LinearProbeHashTable
NewTable(num_buckets) ==
  [size |-> num_buckets,
   latches |-> (num_buckets \div BLOCK_ARRAY_SIZE) + 1,
   blocks |-> [i \in 1 .. ((num_buckets \div BLOCK_ARRAY_SIZE) + 1) |-> ZeroBlock]]

\* GetValue, inner while loop: walk the occupied slots of one block.
RECURSIVE GetValueBlock(_, _, _, _)
GetValueBlock(block, key, offset, result) ==
  IF IsOccupied(block, offset) /\ offset < BLOCK_ARRAY_SIZE
  THEN GetValueBlock(block, key, offset + 1,
         IF IsReadable(block, offset) /\ key = KeyAt(block, offset)
         THEN Append(result, ValueAt(block, offset)) ELSE result)
  ELSE [offset |-> offset, result |-> result]

\* GetValue, outer while loop: offset is not reset when block_idx advances.
RECURSIVE GetValueProbe(_, _, _, _, _)
GetValueProbe(T, key, block_idx, offset, result) ==
  IF block_idx < T.latches
  THEN LET r == GetValueBlock(T.blocks[block_idx + 1], key, offset, result)
       IN  IF r.offset < BLOCK_ARRAY_SIZE
           THEN r.result
           ELSE GetValueProbe(T, key, block_idx + 1, r.offset, r.result)
  ELSE result

\* LinearProbeHashTable::GetValue: the vector *result.
GetValue(T, key) ==
  LET idx == GetSlot(T, key)
  IN  GetValueProbe(T, key, idx.block_idx, idx.offset, <<>>)

\* InsertImpl, inner while loop: dup is set when the identical pair is met.
RECURSIVE InsertBlock(_, _, _, _)
InsertBlock(block, key, value, offset) ==
  IF IsOccupied(block, offset) /\ offset < BLOCK_ARRAY_SIZE
  THEN IF IsReadable(block, offset) /\ key = KeyAt(block, offset) /\ value = ValueAt(block, offset)
       THEN [offset |-> offset, dup |-> TRUE]
       ELSE InsertBlock(block, key, value, offset + 1)
  ELSE [offset |-> offset, dup |-> FALSE]

\* InsertImpl, outer while loop.
RECURSIVE InsertProbe(_, _, _, _, _)
InsertProbe(T, key, value, block_idx, offset) ==
  IF block_idx < T.latches
  THEN LET r == InsertBlock(T.blocks[block_idx + 1], key, value, offset)
       IN  IF r.dup
           THEN [T |-> T, first |-> FALSE, second |-> FALSE]
           ELSE IF r.offset < BLOCK_ARRAY_SIZE
           THEN [T |-> [T EXCEPT !.blocks[block_idx + 1] = BlockInsert(@, r.offset, key, value)],
                 first |-> TRUE, second |-> FALSE]
           ELSE InsertProbe(T, key, value, block_idx + 1, r.offset)
  ELSE [T |-> T, first |-> FALSE, second |-> TRUE]

\* LinearProbeHashTable::InsertImpl: the pair (inserted, needs resize).
InsertImpl(T, key, value) ==
  LET idx == GetSlot(T, key)
  IN  InsertProbe(T, key, value, idx.block_idx, idx.offset)

\* Remove, inner while loop.
RECURSIVE RemoveBlock(_, _, _, _)
RemoveBlock(block, key, value, offset) ==
  IF IsOccupied(block, offset) /\ offset < BLOCK_ARRAY_SIZE
  THEN IF IsReadable(block, offset) /\ key = KeyAt(block, offset) /\ value = ValueAt(block, offset)
       THEN [block |-> BlockRemove(block, offset), offset |-> offset, success |-> TRUE]
       ELSE RemoveBlock(block, key, value, offset + 1)
  ELSE [block |-> block, offset |-> offset, success |-> FALSE]

\* Remove, outer while loop.
RECURSIVE RemoveProbe(_, _, _, _, _)
RemoveProbe(T, key, value, block_idx, offset) ==
  IF block_idx < T.latches
  THEN LET r == RemoveBlock(T.blocks[block_idx + 1], key, value, offset)
           T1 == [T EXCEPT !.blocks[block_idx + 1] = r.block]
       IN  IF r.offset < BLOCK_ARRAY_SIZE
           THEN [T |-> T1, success |-> r.success]
           ELSE RemoveProbe(T1, key, value, block_idx + 1, r.offset)
  ELSE [T |-> T, success |-> FALSE]

\* LinearProbeHashTable::Remove
Remove(T, key, value) ==
  LET idx == GetSlot(T, key)
  IN  RemoveProbe(T, key, value, idx.block_idx, idx.offset)

\* CleanUp: the readable pairs of one block from offset on, in slot order.
RECURSIVE BlockPairs(_, _)
BlockPairs(block, offset) ==
  IF offset < BLOCK_ARRAY_SIZE
  THEN (IF IsReadable(block, offset)
        THEN <<(<<KeyAt(block, offset), ValueAt(block, offset)>>)>> ELSE <<>>)
       \o BlockPairs(block, offset + 1)
  ELSE <<>>

RECURSIVE AllPairs(_, _)
AllPairs(T, i) ==
  IF i < NumBlocks(T) THEN BlockPairs(T.blocks[i + 1], 0) \o AllPairs(T, i + 1) ELSE <<>>

\* CleanUp without `block_page->ResetMemory()`: the old slots stay as they are.
CleanUpNoReset(T) == [all |-> AllPairs(T, 0), T |-> T]

\* LinearProbeHashTable::CleanUp: collect every readable pair, zero every block.
CleanUp(T) ==
  [all |-> AllPairs(T, 0),
   T |-> [T EXCEPT !.blocks = [i \in 1 .. NumBlocks(T) |-> ZeroBlock]]]

\* Resize: re-insert the collected pairs; the results of InsertImpl are dropped.
RECURSIVE Reinsert(_, _)
Reinsert(T, all_pairs) ==
  IF all_pairs = <<>> THEN T
  ELSE Reinsert(InsertImpl(T, Head(all_pairs)[1], Head(all_pairs)[2]).T, Tail(all_pairs))

\* LinearProbeHashTable::Resize
Resize(T) ==
  LET c == CleanUp(T)
      size == 2 * T.size
      want == (size \div BLOCK_ARRAY_SIZE) + 1
      n == IF NumBlocks(T) < want THEN want ELSE NumBlocks(T)
      grown == [size |-> size,
                latches |-> want,
                blocks |-> [i \in 1 .. n |-> IF i <= NumBlocks(T) THEN c.T.blocks[i] ELSE ZeroBlock]]
  IN  Reinsert(grown, c.all)

\* ------------------------------------------- the table's pool calls
\* The pages of the table by page id: the first table on a new pool gets its
\* header page from the first NewPage and its block pages from the following
\* ones, in header order.
header_page_id_ == HEADER_PAGE_ID + 1

\* HashTableHeaderPage::GetBlockPageId
GetBlockPageId(index) == header_page_id_ + 1 + index

HtPages == HEADER_PAGE_ID .. GetBlockPageId(MaxSize \div BLOCK_ARRAY_SIZE)

\* One call of the table to buffer_pool_manager_.
PoolCall(op, page_id) == [op |-> op, page_id |-> page_id]

\* The pin counts after a sequence of pool calls: FetchPage and NewPage add a
\* pin, UnpinPage takes one unless pin_count <= 0.
RECURSIVE PinsAfter(_, _)
PinsAfter(pins, calls) ==
  IF calls = <<>> THEN pins
  ELSE LET c == Head(calls)
           p == c.page_id
       IN  PinsAfter(IF c.op = "Unpin"
                     THEN (IF pins[p] <= 0 THEN pins ELSE [pins EXCEPT ![p] = @ - 1])
                     ELSE [pins EXCEPT ![p] = @ + 1],
                     Tail(calls))

\* The constructor: NewPage(&header_page_id_), FetchPage(0), NewPage and
\* UnpinPage for every block, UnpinPage(header_page_id_, true).
RECURSIVE NewBlockCalls(_, _)
NewBlockCalls(i, n) ==
  IF i < n
  THEN <<PoolCall("New", GetBlockPageId(i)), PoolCall("Unpin", GetBlockPageId(i))>>
       \o NewBlockCalls(i + 1, n)
  ELSE <<>>

ConstructorCalls(num_buckets) ==
  <<PoolCall("New", header_page_id_), PoolCall("Fetch", HEADER_PAGE_ID)>>
  \o NewBlockCalls(0, (num_buckets \div BLOCK_ARRAY_SIZE) + 1)
  \o <<PoolCall("Unpin", header_page_id_)>>

\* FetchPage and UnpinPage of the block the probe is at.
VisitBlock(block_idx) ==
  <<PoolCall("Fetch", GetBlockPageId(block_idx)), PoolCall("Unpin", GetBlockPageId(block_idx))>>

\* GetValue, outer while loop: the blocks it fetches.
RECURSIVE GetValueProbeCalls(_, _, _, _)
GetValueProbeCalls(T, key, block_idx, offset) ==
  IF block_idx < T.latches
  THEN LET r == GetValueBlock(T.blocks[block_idx + 1], key, offset, <<>>)
       IN  VisitBlock(block_idx)
           \o (IF r.offset < BLOCK_ARRAY_SIZE THEN <<>>
               ELSE GetValueProbeCalls(T, key, block_idx + 1, r.offset))
  ELSE <<>>

\* GetValue from FetchPage(header_page_id_) to UnpinPage(header_page_id_).
GetValueCalls(T, key, block_idx, offset) ==
  <<PoolCall("Fetch", header_page_id_)>>
  \o GetValueProbeCalls(T, key, block_idx, offset)
  \o <<PoolCall("Unpin", header_page_id_)>>

\* InsertImpl, outer while loop: every block is unpinned on each of the
\* three ways out of the loop body.
RECURSIVE InsertProbeCalls(_, _, _, _, _)
InsertProbeCalls(T, key, value, block_idx, offset) ==
  IF block_idx < T.latches
  THEN LET r == InsertBlock(T.blocks[block_idx + 1], key, value, offset)
       IN  VisitBlock(block_idx)
           \o (IF r.dup \/ r.offset < BLOCK_ARRAY_SIZE THEN <<>>
               ELSE InsertProbeCalls(T, key, value, block_idx + 1, r.offset))
  ELSE <<>>

InsertImplCalls(T, key, value) ==
  LET idx == GetSlot(T, key)
  IN  InsertProbeCalls(T, key, value, idx.block_idx, idx.offset)

\* Remove, outer while loop.
RECURSIVE RemoveProbeCalls(_, _, _, _, _)
RemoveProbeCalls(T, key, value, block_idx, offset) ==
  IF block_idx < T.latches
  THEN LET r == RemoveBlock(T.blocks[block_idx + 1], key, value, offset)
       IN  VisitBlock(block_idx)
           \o (IF r.offset < BLOCK_ARRAY_SIZE THEN <<>>
               ELSE RemoveProbeCalls([T EXCEPT !.blocks[block_idx + 1] = r.block],
                                     key, value, block_idx + 1, r.offset))
  ELSE <<>>

\* Remove from FetchPage(header_page_id_) to UnpinPage(header_page_id_).
RemoveCalls(T, key, value, block_idx, offset) ==
  <<PoolCall("Fetch", header_page_id_)>>
  \o RemoveProbeCalls(T, key, value, block_idx, offset)
  \o <<PoolCall("Unpin", header_page_id_)>>

\* CleanUp: FetchPage and UnpinPage of every block from i on.
RECURSIVE CleanUpCalls(_, _)
CleanUpCalls(T, i) ==
  IF i < NumBlocks(T) THEN VisitBlock(i) \o CleanUpCalls(T, i + 1) ELSE <<>>

\* Resize, loop over all_pairs: the calls of each InsertImpl.
RECURSIVE ReinsertCalls(_, _)
ReinsertCalls(T, all_pairs) ==
  IF all_pairs = <<>> THEN <<>>
  ELSE LET key == Head(all_pairs)[1]
           value == Head(all_pairs)[2]
       IN  InsertImplCalls(T, key, value)
           \o ReinsertCalls(InsertImpl(T, key, value).T, Tail(all_pairs))

\* Resize from FetchPage(header_page_id_) to UnpinPage(header_page_id_).
ResizeCalls(T) ==
  LET c == CleanUp(T)
      size == 2 * T.size
      want == (size \div BLOCK_ARRAY_SIZE) + 1
      n == IF NumBlocks(T) < want THEN want ELSE NumBlocks(T)
      grown == [size |-> size,
                latches |-> want,
                blocks |-> [i \in 1 .. n |-> IF i <= NumBlocks(T) THEN c.T.blocks[i] ELSE ZeroBlock]]
  IN  <<PoolCall("Fetch", header_page_id_)>>
      \o CleanUpCalls(T, 0)
      \o NewBlockCalls(NumBlocks(T), want)
      \o ReinsertCalls(grown, c.all)
      \o <<PoolCall("Unpin", header_page_id_)>>

\* ----------------------------------------------------- table actions
HtOp(op, key, value, val) == [op |-> op, key |-> key, value |-> value, val |-> val]

SetTable(T) ==
  /\ size_' = T.size
  /\ block_latches_' = T.latches
  /\ blocks' = T.blocks

\* The table right after its constructor, for any initial capacity.
TableInit ==
  /\ \E num_buckets \in 1 .. MaxInitSize :
       LET T == NewTable(num_buckets)
       IN  /\ size_ = T.size /\ block_latches_ = T.latches /\ blocks = T.blocks
           /\ ht_pins = PinsAfter([p \in HtPages |-> 0], ConstructorCalls(num_buckets))
  /\ ht_pc = "idle"
  /\ ht_call = HtOp("None", 0, 0, FALSE)
  /\ ht_last = HtOp("None", 0, 0, FALSE)
  /\ ht_live = {}
  /\ ht_ncalls = 0
  /\ th = [t \in Threads |-> IdleThread]

HtInit == PoolInit /\ TableInit

\* LinearProbeHashTable::GetValue
HtGetValue ==
  /\ ht_pc = "idle"
  /\ ht_ncalls < MaxHtCalls
  /\ ht_ncalls' = ht_ncalls + 1
  /\ \E key \in Keys :
       LET result == GetValue(Table, key)
           idx == GetSlot(Table, key)
       IN  /\ ht_last' = HtOp("GetValue", key, 0, result)
           /\ ht_pins' = PinsAfter(ht_pins, GetValueCalls(Table, key, idx.block_idx, idx.offset))
  /\ UNCHANGED <<size_, block_latches_, blocks, ht_pc, ht_call, ht_live>>
  /\ UNCHANGED <<poolvars, th>>

\* LinearProbeHashTable::Insert up to the first test of res.second.
HtInsert ==
  /\ ht_pc = "idle"
  /\ ht_ncalls < MaxHtCalls
  /\ ht_ncalls' = ht_ncalls + 1
  /\ \E key \in Keys, value \in Values :
       LET res == InsertImpl(Table, key, value)
       IN  /\ SetTable(res.T)
           /\ ht_pins' = PinsAfter(ht_pins,
                            <<PoolCall("Fetch", header_page_id_)>>
                            \o InsertImplCalls(Table, key, value)
                            \o (IF res.second THEN <<>> ELSE <<PoolCall("Unpin", header_page_id_)>>))
           /\ IF res.second
              THEN /\ ht_pc' = "resize"
                   /\ ht_call' = HtOp("Insert", key, value, FALSE)
                   /\ ht_last' = HtOp("Insert", key, value, "pending")
                   /\ UNCHANGED ht_live
              ELSE /\ ht_pc' = "idle"
                   /\ ht_call' = HtOp("None", 0, 0, FALSE)
                   /\ ht_last' = HtOp("Insert", key, value, res.first)
                   /\ ht_live' = IF res.first THEN ht_live \cup {<<key, value>>} ELSE ht_live
  /\ UNCHANGED <<poolvars, th>>

\* Insert, loop `while (res.second)`: the call Resize(size_).  The table's
\* pages and latches are finite resources: a Resize that asks for more than
\* MaxSize slots cannot be carried out and the Insert never returns.
HtResize ==
  /\ ht_pc = "resize"
  /\ IF 2 * size_ <= MaxSize
     THEN /\ SetTable(Resize(Table)) /\ ht_pc' = "retry"
          /\ ht_pins' = PinsAfter(ht_pins, ResizeCalls(Table))
     ELSE UNCHANGED <<size_, block_latches_, blocks, ht_pins>> /\ ht_pc' = "exhausted"
  /\ UNCHANGED <<ht_call, ht_last, ht_live, ht_ncalls>>
  /\ UNCHANGED <<poolvars, th>>

\* Insert, loop `while (res.second)`: the InsertImpl that follows Resize.
HtInsertRetry ==
  /\ ht_pc = "retry"
  /\ LET res == InsertImpl(Table, ht_call.key, ht_call.value)
     IN  /\ SetTable(res.T)
         /\ ht_pins' = PinsAfter(ht_pins,
                          InsertImplCalls(Table, ht_call.key, ht_call.value)
                          \o (IF res.second THEN <<>> ELSE <<PoolCall("Unpin", header_page_id_)>>))
         /\ IF res.second
            THEN ht_pc' = "resize" /\ UNCHANGED <<ht_call, ht_last, ht_live>>
            ELSE /\ ht_pc' = "idle"
                 /\ ht_call' = HtOp("None", 0, 0, FALSE)
                 /\ ht_last' = HtOp("Insert", ht_call.key, ht_call.value, res.first)
                 /\ ht_live' = IF res.first
                               THEN ht_live \cup {<<ht_call.key, ht_call.value>>} ELSE ht_live
  /\ UNCHANGED ht_ncalls
  /\ UNCHANGED <<poolvars, th>>

\* LinearProbeHashTable::Remove
HtRemove ==
  /\ ht_pc = "idle"
  /\ ht_ncalls < MaxHtCalls
  /\ ht_ncalls' = ht_ncalls + 1
  /\ \E key \in Keys, value \in Values :
       LET res == Remove(Table, key, value)
           idx == GetSlot(Table, key)
       IN  /\ SetTable(res.T)
           /\ ht_pins' = PinsAfter(ht_pins, RemoveCalls(Table, key, value, idx.block_idx, idx.offset))
           /\ ht_last' = HtOp("Remove", key, value, res.success)
           /\ ht_live' = IF res.success THEN ht_live \ {<<key, value>>} ELSE ht_live
  /\ UNCHANGED <<ht_pc, ht_call>>
  /\ UNCHANGED <<poolvars, th>>

HtNext ==
  \/ HtGetValue
  \/ HtInsert
  \/ HtResize
  \/ HtInsertRetry
  \/ HtRemove

SpecHT == HtInit /\ [][HtNext]_vars

\* ------------------------------------------- concurrent table calls
\* Threads call the table concurrently.  table_latch_ is held shared by
\* GetValue, Remove and InsertImpl and exclusively by Resize, and a probe
\* reads or writes slots of one block only while it holds that block's latch
\* (a later block is only ever visited with offset = BLOCK_ARRAY_SIZE, where
\* no slot is read), so each latched section is one step.  GetValue and
\* Remove read size_ in GetSlot before they take table_latch_: that read is a
\* step of its own, and it sees the capacity before or after a concurrent
\* Resize.
ThStart(t) ==
  /\ th[t].pc = "idle"
  /\ ht_ncalls < MaxThCalls
  /\ ht_ncalls' = ht_ncalls + 1

ThSet(t, r) == th' = [th EXCEPT ![t] = r]

ThReturn(t, ret) ==
  [IdleThread EXCEPT !.op = th[t].op, !.key = th[t].key, !.value = th[t].value, !.ret = ret]

\* The values under key that are live now.
LiveValues(T, key) == LET all == AllPairs(T, 0) IN {v \in Values : \E i \in 1 .. Len(all) : all[i] = <<key, v>>}

\* GetValue: `idx = GetSlot(key)`, before table_latch_.RLock().
ThGetValueSlot(t) ==
  /\ ThStart(t)
  /\ \E key \in Keys :
       LET idx == GetSlot(Table, key)
       IN  ThSet(t, [pc |-> "getvalue", op |-> "GetValue", key |-> key, value |-> 0,
                     block_idx |-> idx.block_idx, offset |-> idx.offset,
                     seen |-> LiveValues(Table, key), ret |-> FALSE])
  /\ UNCHANGED <<size_, block_latches_, blocks, ht_pc, ht_call, ht_last, ht_live, ht_pins>>
  /\ UNCHANGED poolvars

\* GetValue: the probe under table_latch_, from the slot computed before.
ThGetValueProbe(t) ==
  /\ th[t].pc = "getvalue"
  /\ ThSet(t, ThReturn(t, GetValueProbe(Table, th[t].key, th[t].block_idx, th[t].offset, <<>>)))
  /\ ht_pins' = PinsAfter(ht_pins, GetValueCalls(Table, th[t].key, th[t].block_idx, th[t].offset))
  /\ UNCHANGED <<size_, block_latches_, blocks, ht_pc, ht_call, ht_last, ht_live, ht_ncalls>>
  /\ UNCHANGED poolvars

\* Remove: `idx = GetSlot(key)`, before table_latch_.RLock().
ThRemoveSlot(t) ==
  /\ ThStart(t)
  /\ \E key \in Keys, value \in Values :
       LET idx == GetSlot(Table, key)
       IN  ThSet(t, [pc |-> "remove", op |-> "Remove", key |-> key, value |-> value,
                     block_idx |-> idx.block_idx, offset |-> idx.offset,
                     seen |-> {}, ret |-> FALSE])
  /\ UNCHANGED <<size_, block_latches_, blocks, ht_pc, ht_call, ht_last, ht_live, ht_pins>>
  /\ UNCHANGED poolvars

\* Remove: the probe under table_latch_.  A pair that is removed is no longer
\* one that a lookup in progress has to report.
ThRemoveProbe(t) ==
  /\ th[t].pc = "remove"
  /\ LET res == RemoveProbe(Table, th[t].key, th[t].value, th[t].block_idx, th[t].offset)
     IN  /\ SetTable(res.T)
         /\ ht_pins' = PinsAfter(ht_pins, RemoveCalls(Table, th[t].key, th[t].value,
                                                      th[t].block_idx, th[t].offset))
         /\ th' = [u \in Threads |->
                     IF u = t THEN ThReturn(t, res.success)
                     ELSE IF res.success /\ th[u].pc = "getvalue" /\ th[u].key = th[t].key
                     THEN [th[u] EXCEPT !.seen = @ \ {th[t].value}]
                     ELSE th[u]]
  /\ UNCHANGED <<ht_pc, ht_call, ht_last, ht_live, ht_ncalls>>
  /\ UNCHANGED poolvars

\* Insert up to the first test of res.second.
ThInsert(t) ==
  /\ ThStart(t)
  /\ \E key \in Keys, value \in Values :
       LET res == InsertImpl(Table, key, value)
           r == [IdleThread EXCEPT !.op = "Insert", !.key = key, !.value = value]
       IN  /\ SetTable(res.T)
           /\ ht_pins' = PinsAfter(ht_pins,
                            <<PoolCall("Fetch", header_page_id_)>>
                            \o InsertImplCalls(Table, key, value)
                            \o (IF res.second THEN <<>> ELSE <<PoolCall("Unpin", header_page_id_)>>))
           /\ ThSet(t, IF res.second THEN [r EXCEPT !.pc = "resize"]
                       ELSE [r EXCEPT !.ret = res.first])
  /\ UNCHANGED <<ht_pc, ht_call, ht_last, ht_live>>
  /\ UNCHANGED poolvars

\* Insert, loop `while (res.second)`: Resize(size_) under table_latch_.WLock().
ThResize(t) ==
  /\ th[t].pc = "resize"
  /\ IF 2 * size_ <= MaxSize
     THEN /\ SetTable(Resize(Table)) /\ ThSet(t, [th[t] EXCEPT !.pc = "retry"])
          /\ ht_pins' = PinsAfter(ht_pins, ResizeCalls(Table))
     ELSE UNCHANGED <<size_, block_latches_, blocks, ht_pins>> /\ ThSet(t, [th[t] EXCEPT !.pc = "exhausted"])
  /\ UNCHANGED <<ht_pc, ht_call, ht_last, ht_live, ht_ncalls>>
  /\ UNCHANGED poolvars

\* Insert, loop `while (res.second)`: the InsertImpl that follows Resize.
ThInsertRetry(t) ==
  /\ th[t].pc = "retry"
  /\ LET res == InsertImpl(Table, th[t].key, th[t].value)
     IN  /\ SetTable(res.T)
         /\ ht_pins' = PinsAfter(ht_pins,
                          InsertImplCalls(Table, th[t].key, th[t].value)
                          \o (IF res.second THEN <<>> ELSE <<PoolCall("Unpin", header_page_id_)>>))
         /\ ThSet(t, IF res.second THEN [th[t] EXCEPT !.pc = "resize"]
                     ELSE ThReturn(t, res.first))
  /\ UNCHANGED <<ht_pc, ht_call, ht_last, ht_live, ht_ncalls>>
  /\ UNCHANGED poolvars

ThNext ==
  \/ \E t \in Threads : ThGetValueSlot(t)
  \/ \E t \in Threads : ThGetValueProbe(t)
  \/ \E t \in Threads : ThRemoveSlot(t)
  \/ \E t \in Threads : ThRemoveProbe(t)
  \/ \E t \in Threads : ThInsert(t)
  \/ \E t \in Threads : ThResize(t)
  \/ \E t \in Threads : ThInsertRetry(t)

SpecTh == HtInit /\ [][ThNext]_vars

\* ------------------------------------------------- hash table claims
InSeq(x, s) == \E i \in 1 .. Len(s) : s[i] = x

\* C10: between calls, every pair whose Insert returned true and that was
\* not removed since is listed by GetValue, and a pair whose Remove just
\* returned true is not.
C10_RoundTrip ==
  ht_pc = "idle" =>
    /\ \A kv \in ht_live : InSeq(kv[2], GetValue(Table, kv[1]))
    /\ (ht_last.op = "Remove" /\ ht_last.val = TRUE)
         => ~InSeq(ht_last.value, GetValue(Table, ht_last.key))

\* The live pairs of a table: what CleanUp would collect, as a set.
LivePairs(T) == LET all == AllPairs(T, 0) IN {all[i] : i \in 1 .. Len(all)}

\* A tombstone: a slot that is occupied and not readable.
HasTombstone(T) ==
  \E i \in 1 .. NumBlocks(T), o \in Offsets :
    IsOccupied(T.blocks[i], o) /\ ~IsReadable(T.blocks[i], o)

\* C11: a Resize leaves the set of live pairs as it was (every collected
\* pair is re-inserted) and no tombstone, for every initial capacity.
C11_ResizeLosesNothing ==
  [][(ht_pc = "resize" /\ ht_pc' = "retry")
       => (LivePairs(Table)' = LivePairs(Table) /\ ~HasTombstone(Table)')]_vars

\* Once the capacity exceeds every key's hash, home slots no longer move when
\* the capacity doubles, so a Resize round that failed then fails again at
\* every larger capacity: the Insert that ran out of resources was looping.
ExhaustedOnlyWhenLooping ==
  ht_pc = "exhausted" =>
    /\ size_ > MaxKey
    /\ InsertImpl(Table, ht_call.key, ht_call.value).second

\* C12: an Insert of a pair that is not live never runs out of Resize rounds,
\* and when it returns it returns true.
C12_InsertCompletes ==
  [][/\ ht_pc' # "exhausted"
     /\ (/\ ht_pc' = "idle"
         /\ ht_last'.op = "Insert"
         /\ <<ht_last'.key, ht_last'.value>> \notin LivePairs(Table))
          => ht_last'.val = TRUE]_vars

\* How often x occurs in the sequence s.
Count(x, s) == Cardinality({i \in 1 .. Len(s) : s[i] = x})

\* C13: an Insert of a pair that is live returns false and changes no slot;
\* no pair is live in two slots and GetValue lists no value twice.
C13_NoDuplicates ==
  /\ \A kv \in LivePairs(Table) :
       /\ InsertImpl(Table, kv[1], kv[2]) = [T |-> Table, first |-> FALSE, second |-> FALSE]
       /\ Count(kv, AllPairs(Table, 0)) = 1
  /\ \A k \in Keys, v \in Values : Count(v, GetValue(Table, k)) <= 1
  /\ \A t \in Threads, v \in Values :
       (th[t].pc = "idle" /\ th[t].op = "GetValue") => Count(v, th[t].ret) <= 1

\* Two threads inserted the same pair: one Insert returned true, the other
\* found the pair live and returned false.
C13_Witness ==
  \E t \in Threads, u \in Threads :
    /\ t # u
    /\ th[t].pc = "idle" /\ th[t].op = "Insert" /\ th[t].ret = FALSE
    /\ th[u].pc = "idle" /\ th[u].op = "Insert" /\ th[u].ret = TRUE
    /\ th[t].key = th[u].key /\ th[t].value = th[u].value
    /\ <<th[t].key, th[t].value>> \in LivePairs(Table)

\* C14: a GetValue(k) returns every value v whose pair (k, v) was live when
\* the call began, is live while the call holds table_latch_ and was not
\* removed in between, whatever Inserts and Resizes of other threads ran
\* meanwhile.
C14_LookupNotFooled ==
  [][\A t \in Threads :
       (th[t].pc = "getvalue" /\ th'[t].pc = "idle")
         => \A v \in th[t].seen :
              <<th[t].key, v>> \in LivePairs(Table) => InSeq(v, th'[t].ret)]_vars

\* A frame that FetchPage may take for a page that is not resident.
FrameAvailable ==
  free_list_ # <<>> \/ \E f \in Frames : Resident(f) /\ pages_[f].pin_count = 0

\* C15: FetchPageImpl runs under latch_ from its first to its last statement,
\* so two threads fetching page p are two FetchPage(p) calls one after the
\* other.  The first, if p is not resident and a frame is free or evictable,
\* completes and binds p to the frame it returns; the second returns the same
\* frame, reads nothing from the disk and adds one to the pin count.
C15_ConcurrentFetch ==
  [][/\ (IsCall /\ last'.op = "Fetch" /\ last'.page_id \notin DOMAIN page_table_ /\ FrameAvailable)
          => \/ /\ pc' = "idle"
                /\ last'.val \in Frames
                /\ last'.page_id \in DOMAIN page_table_'
                /\ page_table_'[last'.page_id] = last'.val
                /\ pages_'[last'.val].pin_count = 1
             \/ pc' = "victim"
     /\ (pc' = "victim" /\ call'.op = "Fetch") => iters' <= 2 * (Len(clock_') + 1)
     /\ (/\ IsCall /\ last.op = "Fetch" /\ last.val \in Frames
         /\ last'.op = "Fetch" /\ last'.page_id = last.page_id)
          => /\ pc' = "idle"
             /\ last'.val = last.val
             /\ page_table_' = page_table_
             /\ pages_'[last.val].pin_count = pages_[last.val].pin_count + 1
             /\ pages_'[last.val].data = pages_[last.val].data]_vars

\* The replacer's candidate set.
Candidates(clock) == {clock[i].frame_id : i \in 1 .. Len(clock)}

\* C16: when UnpinPage calls replacer Unpin(f) for a frame f that is already
\* a candidate, the candidate set and Size stay as they are; when FetchPage
\* calls replacer Pin(f), f is no candidate afterwards.
C16_UnpinIdempotent ==
  [][/\ (/\ IsCall /\ last'.op = "Unpin"
         /\ last'.page_id \in DOMAIN page_table_
         /\ pages_[page_table_[last'.page_id]].pin_count = 1
         /\ InReplacer(page_table_[last'.page_id]))
          => (Candidates(clock_') = Candidates(clock_) /\ Len(clock_') = Len(clock_))
     /\ (IsCall /\ last'.op = "Fetch" /\ last'.page_id \in DOMAIN page_table_)
          => page_table_[last'.page_id] \notin Candidates(clock_')]_vars

\* Every slot of block block_idx from offset to the end of the block is
\* occupied.
BlockTailOccupied(T, block_idx, offset) ==
  \A o \in Offsets : o >= offset => IsOccupied(T.blocks[block_idx + 1], o)

\* A block after block_idx has a non-occupied slot among the slots 0 .. N-1.
LaterSlotFree(T, block_idx) ==
  \E b \in 0 .. (NumBlocks(T) - 1), o \in Offsets :
    /\ b > block_idx
    /\ b * BLOCK_ARRAY_SIZE + o < T.size
    /\ ~IsOccupied(T.blocks[b + 1], o)

\* C17: an Insert of a pair that is not live, whose home block is occupied
\* from the home offset to its end while a later block has a non-occupied
\* slot, writes the pair without any Resize, and GetValue then finds it.
C17_ProbeNextBlock ==
  [][(/\ ht_pc = "idle" /\ ht_ncalls' # ht_ncalls /\ ht_last'.op = "Insert"
      /\ <<ht_last'.key, ht_last'.value>> \notin LivePairs(Table)
      /\ BlockTailOccupied(Table, GetSlot(Table, ht_last'.key).block_idx,
                           GetSlot(Table, ht_last'.key).offset)
      /\ LaterSlotFree(Table, GetSlot(Table, ht_last'.key).block_idx))
       => /\ ht_pc' = "idle"
          /\ ht_last'.val = TRUE
          /\ size_' = size_
          /\ InSeq(ht_last'.value, GetValue(Table', ht_last'.key))]_vars

\* The slot with table-wide index s is occupied.
SlotOccupied(T, s) ==
  /\ s \div BLOCK_ARRAY_SIZE < NumBlocks(T)
  /\ IsOccupied(T.blocks[(s \div BLOCK_ARRAY_SIZE) + 1], s % BLOCK_ARRAY_SIZE)

\* The home slot hash(key) mod capacity, as a table-wide index.
Home(T, key) == GetSlot(T, key).block_idx * BLOCK_ARRAY_SIZE + GetSlot(T, key).offset

CeilDiv(n, d) == (n + d - 1) \div d

\* C19: the number of block pages in the header and the number of block
\* latches both equal ceil(capacity / BLOCK_ARRAY_SIZE), after construction
\* and after every Resize.
C19_BlockCount ==
  /\ NumBlocks(Table) = CeilDiv(size_, BLOCK_ARRAY_SIZE)
  /\ block_latches_ = CeilDiv(size_, BLOCK_ARRAY_SIZE)

\* C20: UnpinPage(p, d) for a page id without page-table entry returns false
\* and leaves the page table, the frames, the free list and the replacer as
\* they are.
C20_UnpinNonResident ==
  [][(IsCall /\ last'.op = "Unpin" /\ last'.page_id \notin DOMAIN page_table_)
       => /\ last'.val = FALSE
          /\ page_table_' = page_table_
          /\ pages_' = pages_
          /\ free_list_' = free_list_
          /\ clock_' = clock_ /\ hand_' = hand_]_vars

\* C21: when a buffer-pool operation returns, no frame latch is held, and no
\* operation waits for ever for the latch of a frame.
C21_LatchesReleased ==
  [][/\ (IsCall /\ pc' = "idle") => \A f \in Frames : rwlatch_'[f] = "none"
     /\ pc' # "blocked"]_vars

C24_ReplacerBounded ==
  pc = "idle" =>
    /\ \A i, j \in 1 .. Len(clock_) :
         clock_[i].frame_id = clock_[j].frame_id => i = j
    /\ Size([clock |-> clock_, hand |-> hand_]) <= PoolSize

\* C23: after the constructor and after every completed GetValue, Insert and
\* Remove, no page of the table (catalog page 0, header page, block pages)
\* keeps a pin of the table: every FetchPage and NewPage was matched by one
\* UnpinPage.
C23_NoPinLeak ==
  ht_pc = "idle" => \A p \in HtPages : ht_pins[p] = 0

====
